---- MODULE Spec2Model ----
(***************************************************************************)
(* drivedriverb: the catalog store (storage.rs), the tree walker           *)
(* (scanner.rs), the file analyzer (analyzer.rs) and the duplicate         *)
(* detector (storage.rs), modelled as state machines over a small file     *)
(* system and a small storage directory.                                   *)
(***************************************************************************)
EXTENDS Integers, Sequences, FiniteSets, TLC

\* ------------------------------------------------------------------ bounds
\* Number of distinct file paths of the modelled file system.
NumPaths == 2
\* Largest chunk capacity tried (storage.rs:49 fixes it at 10000; the model
\* runs the same code for every capacity 1..MaxChunkSize).
MaxChunkSize == 2
\* Number of paths of the catalogs handed to the duplicate detector.
NumDupPaths == 3

\* ------------------------------------------------------------------ paths
\* The paths of the model, with the parts std::path::Path derives from them.
\* extension is an Option: <<>> is None, <<e>> is Some(e).
PathTable ==
    << [path |-> "/mnt/a.txt", file_name |-> "a.txt", extension |-> <<"txt">>, root |-> "/mnt"],
       [path |-> "/b.PDF",     file_name |-> "b.PDF", extension |-> <<"PDF">>, root |-> "/"],
       [path |-> "/mnt/c",     file_name |-> "c",     extension |-> <<>>,      root |-> "/mnt"],
       [path |-> "/mnt/d.txt", file_name |-> "d.txt", extension |-> <<"txt">>, root |-> "/mnt"],
       [path |-> "/e.mp3",     file_name |-> "e.mp3", extension |-> <<"mp3">>, root |-> "/"] >>

PathsUpTo(n) == {PathTable[i].path : i \in 1..n}
Paths == PathsUpTo(NumPaths)

PathInfo(p) == CHOOSE r \in {PathTable[i] : i \in 1..Len(PathTable)} : r.path = p

\* str::to_lowercase on the extensions of the model.
to_lowercase(s) == IF s = "PDF" THEN "pdf" ELSE s

\* Option values.
None == <<>>
Some(x) == <<x>>

EmptyMap == [x \in {} |-> x]

\* All orders in which the elements of a finite set can be enumerated
\* (HashMap iteration order is unspecified).
RECURSIVE Orders(_)
Orders(S) ==
    IF S = {} THEN {<<>>}
    ELSE UNION {{<<x>> \o o : o \in Orders(S \ {x})} : x \in S}

\* ------------------------------------------------------------- analyzer.rs
\* A DateTime<Utc> is [secs, nsecs]: whole seconds since the epoch and the
\* sub-second nanoseconds.
DateTime(s, n) == [secs |-> s, nsecs |-> n]

\* Truncating integer division (Rust's / on i64).
TruncDiv(a, b) == IF a >= 0 THEN a \div b ELSE -((-a) \div b)

\* (now - modified).num_days() of chrono: the duration is normalised to
\* (secs, 0 <= nanos < 10^9), num_seconds rounds toward zero, num_days is
\* num_seconds / 86400.
num_days(now, modified) ==
    LET ds == now.secs - modified.secs
        dn == now.nsecs - modified.nsecs
        secs == IF dn < 0 THEN ds - 1 ELSE ds
        nanos == IF dn < 0 THEN dn + 1000000000 ELSE dn
        num_seconds == IF secs < 0 /\ nanos > 0 THEN secs + 1 ELSE secs
    IN  TruncDiv(num_seconds, 86400)

determine_file_category(extension, executable) ==
    IF extension # None
    THEN LET ext == extension[1]
         IN  CASE ext \in {"jpg", "jpeg", "png", "gif", "bmp", "tiff", "webp", "heic"} -> "image"
               [] ext \in {"mp4", "avi", "mov", "wmv", "flv", "mkv", "webm"} -> "video"
               [] ext \in {"mp3", "wav", "ogg", "flac", "aac", "m4a"} -> "audio"
               [] ext \in {"doc", "docx", "pdf", "txt", "rtf", "odt"} -> "document"
               [] ext \in {"xls", "xlsx", "csv", "ods"} -> "spreadsheet"
               [] ext \in {"ppt", "pptx", "odp"} -> "presentation"
               [] ext \in {"exe", "app", "dmg", "deb", "rpm"} -> "application"
               [] ext \in {"zip", "rar", "7z", "tar", "gz"} -> "archive"
               [] OTHER -> "other"
    ELSE IF executable THEN "application" ELSE "other"

Min(a, b) == IF a < b THEN a ELSE b

\* Faulty variant of calculate_importance_score: the recency limits are
\* inclusive (<= 7, <= 30, <= 90).
calculate_importance_score_inclusive(category, days_since_modification) ==
    LET recency == IF days_since_modification <= 7 THEN 30
                   ELSE IF days_since_modification <= 30 THEN 20
                   ELSE IF days_since_modification <= 90 THEN 10
                   ELSE 0
        bonus == CASE category = "document" -> 25
                   [] category \in {"spreadsheet", "presentation"} -> 20
                   [] category \in {"image", "video"} -> 15
                   [] category = "audio" -> 10
                   [] category = "application" -> 5
                   [] OTHER -> 0
    IN  Min(recency + bonus, 100)

\* Faulty variant of calculate_importance_score: a file not modified for 90
\* days or more loses 10 points, and only the upper end is clamped.
calculate_importance_score_penalizing(category, days_since_modification) ==
    LET recency == IF days_since_modification < 7 THEN 30
                   ELSE IF days_since_modification < 30 THEN 20
                   ELSE IF days_since_modification < 90 THEN 10
                   ELSE -10
        bonus == CASE category = "document" -> 25
                   [] category \in {"spreadsheet", "presentation"} -> 20
                   [] category \in {"image", "video"} -> 15
                   [] category = "audio" -> 10
                   [] category = "application" -> 5
                   [] OTHER -> 0
    IN  Min(recency + bonus, 100)

calculate_importance_score(category, days_since_modification) ==
    LET recency == IF days_since_modification < 7 THEN 30
                   ELSE IF days_since_modification < 30 THEN 20
                   ELSE IF days_since_modification < 90 THEN 10
                   ELSE 0
        bonus == CASE category = "document" -> 25
                   [] category \in {"spreadsheet", "presentation"} -> 20
                   [] category \in {"image", "video"} -> 15
                   [] category = "audio" -> 10
                   [] category = "application" -> 5
                   [] OTHER -> 0
    IN  Min(recency + bonus, 100)

get_mime_type(extension) ==
    IF extension # None
    THEN LET ext == to_lowercase(extension[1])
         IN  CASE ext \in {"jpg", "jpeg"} -> "image/jpeg"
               [] ext = "png" -> "image/png"
               [] ext = "pdf" -> "application/pdf"
               [] ext = "txt" -> "text/plain"
               [] OTHER -> "application/octet-stream"
    ELSE "application/octet-stream"

\* analyze_file(path, system_metadata), with the clock reading `now` that
\* calculate_importance_score takes from Utc::now().  system_metadata is
\* [len, created, modified, executable].
analyze_file(path, system_metadata, now) ==
    LET info == PathInfo(path)
        extension == IF info.extension = None THEN None
                     ELSE Some(to_lowercase(info.extension[1]))
        category == determine_file_category(extension, system_metadata.executable)
    IN  [ path             |-> path,
          file_name        |-> info.file_name,
          extension        |-> IF extension = None THEN "" ELSE extension[1],
          size             |-> system_metadata.len,
          created          |-> system_metadata.created,
          modified         |-> system_metadata.modified,
          category         |-> category,
          mime_type        |-> get_mime_type(info.extension),
          importance_score |-> calculate_importance_score(
                                   category, num_days(now, system_metadata.modified)),
          last_accessed    |-> system_metadata.modified,
          is_duplicate     |-> FALSE,
          duplicate_of     |-> None,
          ai_analysis      |-> None ]

\* The OS metadata a file of the model can have: an old one-byte file and a
\* recent two-byte file whose timestamps carry sub-second nanoseconds.
SystemMetadata ==
    { [len |-> 1, created |-> DateTime(86400, 0), modified |-> DateTime(172800, 0),
       executable |-> FALSE],
      [len |-> 2, created |-> DateTime(86400, 250), modified |-> DateTime(3283200, 500),
       executable |-> TRUE] }

\* The clock reading of the scans of the model (day 40).
Now == DateTime(3456000, 0)

\* The FileMetadata records the analyzer can produce for path p.
RecordsOf(p) == {analyze_file(p, md, Now) : md \in SystemMetadata}

\* The metadata maps a walk can produce: a record per path of some subset.
MetadataMaps(P) == UNION {[S -> UNION {RecordsOf(p) : p \in S}] : S \in SUBSET P}
WalkMaps(P) == {m \in MetadataMaps(P) : \A p \in DOMAIN m : m[p].path = p}

\* -------------------------------------------------------------- scanner.rs
\* A file of the scanned file system: absent, or a regular file with its OS
\* metadata; stat_ok tells whether std::fs::metadata succeeds on it.
NoEntry == [kind |-> "none"]
RegularFile(md, ok) == [kind |-> "file", md |-> md, stat_ok |-> ok]
FileStates ==
    {NoEntry} \cup {RegularFile(md, TRUE) : md \in SystemMetadata}
              \cup {RegularFile(CHOOSE md \in SystemMetadata : md.len = 1, FALSE)}
FileSystems == [Paths -> FileStates]

\* The drive roots handed to scan_drive and the paths WalkDir visits below
\* them.
Drives == {"/", "/mnt"}
Under(root, p) == root = "/" \/ PathInfo(p).root = root

EmptyScanResult ==
    [total_files |-> 0, total_size |-> 0, file_types |-> EmptyMap, metadata |-> EmptyMap]

\* *map.entry(k).or_insert(0) += 1
Increment(map, k) ==
    [x \in DOMAIN map \cup {k} |->
        IF x = k THEN (IF k \in DOMAIN map THEN map[k] + 1 ELSE 1) ELSE map[x]]

\* HashMap::insert
Insert(map, k, v) == [x \in DOMAIN map \cup {k} |-> IF x = k THEN v ELSE map[x]]

\* Faulty variant of is_path_excluded: the exclusion set is never consulted.
is_path_excluded_never(excluded_paths, path) == FALSE

\* Config::is_path_excluded: membership of the exact path.
is_path_excluded(excluded_paths, path) == path \in excluded_paths

\* The body of the walk loop of scan_drive for one regular file.
VisitEntry(result, path, file, excluded_paths, now) ==
    IF is_path_excluded(excluded_paths, path) THEN result
    ELSE IF ~file.stat_ok THEN result
    ELSE LET ext == PathInfo(path).extension
         IN  [ total_files |-> result.total_files + 1,
               total_size  |-> result.total_size + file.md.len,
               file_types  |-> IF ext # None
                               THEN Increment(result.file_types, to_lowercase(ext[1]))
                               ELSE result.file_types,
               metadata    |-> Insert(result.metadata, path,
                                      analyze_file(path, file.md, now)) ]

\* Faulty variant of WalkLoop: the walk ends at the first file whose metadata
\* cannot be read.
RECURSIVE WalkLoopAborting(_, _, _, _, _)
WalkLoopAborting(entries, files, excluded_paths, now, result) ==
    IF entries = <<>> THEN result
    ELSE IF ~is_path_excluded(excluded_paths, Head(entries)) /\ ~files[Head(entries)].stat_ok
    THEN result
    ELSE WalkLoopAborting(Tail(entries), files, excluded_paths, now,
                          VisitEntry(result, Head(entries), files[Head(entries)],
                                     excluded_paths, now))

\* The walk loop of scan_drive over the entries WalkDir yields, in order.
RECURSIVE WalkLoop(_, _, _, _, _)
WalkLoop(entries, files, excluded_paths, now, result) ==
    IF entries = <<>> THEN result
    ELSE WalkLoop(Tail(entries), files, excluded_paths, now,
                  VisitEntry(result, Head(entries), files[Head(entries)],
                             excluded_paths, now))

\* The regular files WalkDir yields below a root (in path-table order; the
\* result does not depend on the order, every path being visited once).
WalkEntries(files, root) ==
    SelectSeq([i \in 1..Len(PathTable) |-> PathTable[i].path],
              LAMBDA p : p \in DOMAIN files /\ files[p].kind = "file" /\ Under(root, p))

\* The ScanResult scan_drive builds (scanner.rs lines 31-72).
Walk(files, excluded_paths, root, now) ==
    WalkLoop(WalkEntries(files, root), files, excluded_paths, now, EmptyScanResult)

\* The ScanResults a walk can hand to save_scan_result.
ScanResults == {Walk(f, {}, "/", Now) : f \in FileSystems}

\* -------------------------------------------------------------- storage.rs
\* serde with chrono::serde::ts_seconds: a timestamp is written as its whole
\* seconds and read back with zero nanoseconds.
ts_seconds_serialize(dt) == dt.secs
ts_seconds_deserialize(n) == DateTime(n, 0)

\* FileMetadata as written to a chunk file and as read back.
Serialize(m) ==
    [m EXCEPT !.created = ts_seconds_serialize(m.created),
              !.modified = ts_seconds_serialize(m.modified),
              !.last_accessed = ts_seconds_serialize(m.last_accessed)]
Deserialize(j) ==
    [j EXCEPT !.created = ts_seconds_deserialize(j.created),
              !.modified = ts_seconds_deserialize(j.modified),
              !.last_accessed = ts_seconds_deserialize(j.last_accessed)]

\* A file of the storage directory: absent, holding JSON text that parses to
\* `data`, or garbled (unreadable, or text that does not parse: what a failed
\* fs::write leaves after truncating the file).
NoFile == [kind |-> "none"]
Garbled == [kind |-> "garbled"]
Json(data) == [kind |-> "json", data |-> data]

ChunkIds == 1..NumPaths

\* A fault injected into one save_scan_result call: the I/O step that fails
\* (0: none, 1: create_dir_all, 2: the stats write, 2+k: the k-th chunk
\* write) and whether the failed write had already truncated its file.
Faults(n) == {[at |-> 0, torn |-> FALSE], [at |-> 1, torn |-> FALSE]}
             \cup [at : 2..(n + 2), torn : BOOLEAN]

\* What a failed fs::write leaves behind.
FailedWrite(old, torn) == IF torn THEN Garbled ELSE old

\* The statistics object of save_scan_result (the wall-clock timestamp field
\* is left out).
StatsOf(result) ==
    [total_files |-> result.total_files, total_size |-> result.total_size,
     file_types |-> result.file_types]

\* Faulty variant of ReadChunk: the chunk is rewritten without loading what it held.
ReadChunkForgets(existing) == EmptyMap

\* "Load existing chunk if it exists" (lines 60-68): a missing, unreadable or
\* unparsable chunk file counts as an empty chunk.
ReadChunk(existing) == IF existing.kind = "json" THEN existing.data ELSE EmptyMap

\* Faulty variant of SaveLoop: a chunk file that exists and does not parse is
\* left as it is, and the record is not written.
RECURSIVE SaveLoopSparing(_, _, _, _, _, _, _, _)
SaveLoopSparing(chunks0, metadata, order, k, current_chunk, current_index, capacity, fault) ==
    IF k > Len(order) THEN [chunks |-> chunks0, ok |-> TRUE]
    ELSE LET path == order[k]
             chunk == IF current_index % capacity = 0
                      THEN current_chunk + 1 ELSE current_chunk
             existing == chunks0[chunk]
             chunk_data == ReadChunk(existing)
             new_data == Insert(chunk_data, path, Serialize(metadata[path]))
         IN  IF fault.at = k + 2
             THEN [chunks |-> [chunks0 EXCEPT ![chunk] = FailedWrite(existing, fault.torn)],
                   ok |-> FALSE]
             ELSE SaveLoopSparing(IF existing.kind = "garbled" THEN chunks0
                                  ELSE [chunks0 EXCEPT ![chunk] = Json(new_data)],
                                  metadata, order, k + 1, chunk, current_index + 1,
                                  capacity, fault)

\* Faulty variant of SaveLoop: the chunk number advances every capacity + 1
\* records.
RECURSIVE SaveLoopLate(_, _, _, _, _, _, _, _)
SaveLoopLate(chunks0, metadata, order, k, current_chunk, current_index, capacity, fault) ==
    IF k > Len(order) THEN [chunks |-> chunks0, ok |-> TRUE]
    ELSE LET path == order[k]
             chunk == IF current_index % (capacity + 1) = 0
                      THEN current_chunk + 1 ELSE current_chunk
             existing == chunks0[chunk]
             chunk_data == ReadChunk(existing)
             new_data == Insert(chunk_data, path, Serialize(metadata[path]))
         IN  IF fault.at = k + 2
             THEN [chunks |-> [chunks0 EXCEPT ![chunk] = FailedWrite(existing, fault.torn)],
                   ok |-> FALSE]
             ELSE SaveLoopLate([chunks0 EXCEPT ![chunk] = Json(new_data)], metadata, order,
                               k + 1, chunk, current_index + 1, capacity, fault)

\* The loop of save_scan_result over result.metadata in iteration order
\* `order`, from its k-th record on.
RECURSIVE SaveLoop(_, _, _, _, _, _, _, _)
SaveLoop(chunks0, metadata, order, k, current_chunk, current_index, capacity, fault) ==
    IF k > Len(order) THEN [chunks |-> chunks0, ok |-> TRUE]
    ELSE LET path == order[k]
             chunk == IF current_index % capacity = 0
                      THEN current_chunk + 1 ELSE current_chunk
             existing == chunks0[chunk]
             chunk_data == ReadChunk(existing)
             new_data == Insert(chunk_data, path, Serialize(metadata[path]))
         IN  IF fault.at = k + 2
             THEN [chunks |-> [chunks0 EXCEPT ![chunk] = FailedWrite(existing, fault.torn)],
                   ok |-> FALSE]
             ELSE SaveLoop([chunks0 EXCEPT ![chunk] = Json(new_data)], metadata, order,
                           k + 1, chunk, current_index + 1, capacity, fault)

\* Faulty variant of save_scan_result: the totals of the result are added to
\* those the stats file already holds.
save_scan_result_accumulating(disk, result, order, capacity, fault) ==
    IF fault.at = 1 THEN [disk |-> disk, ok |-> FALSE]
    ELSE IF fault.at = 2
    THEN [disk |-> [disk EXCEPT !.data_dir = TRUE,
                                !.stats = FailedWrite(disk.stats, fault.torn)],
          ok |-> FALSE]
    ELSE LET r == SaveLoop(disk.chunks, result.metadata, order, 1, 0, 0, capacity, fault)
             new == StatsOf(result)
             old == IF disk.stats.kind = "json" THEN disk.stats.data
                    ELSE StatsOf(EmptyScanResult)
             count(map, k) == IF k \in DOMAIN map THEN map[k] ELSE 0
         IN  [disk |-> [data_dir |-> TRUE,
                        stats |-> Json([total_files |-> old.total_files + new.total_files,
                                        total_size |-> old.total_size + new.total_size,
                                        file_types |->
                                            [k \in DOMAIN old.file_types \cup DOMAIN new.file_types |->
                                                count(old.file_types, k) + count(new.file_types, k)]]),
                        chunks |-> r.chunks],
              ok |-> r.ok]

\* Faulty variant of save_scan_result: every call starts from an emptied set of chunk
\* files.
save_scan_result_restarting(disk, result, order, capacity, fault) ==
    IF fault.at = 1 THEN [disk |-> disk, ok |-> FALSE]
    ELSE IF fault.at = 2
    THEN [disk |-> [disk EXCEPT !.data_dir = TRUE,
                                !.stats = FailedWrite(disk.stats, fault.torn)],
          ok |-> FALSE]
    ELSE LET r == SaveLoop([c \in DOMAIN disk.chunks |-> NoFile], result.metadata, order,
                           1, 0, 0, capacity, fault)
         IN  [disk |-> [data_dir |-> TRUE, stats |-> Json(StatsOf(result)),
                        chunks |-> r.chunks],
              ok |-> r.ok]

\* save_scan_result on the storage directory `disk` = [data_dir, stats,
\* chunks]; returns the directory afterwards and whether the call returned Ok.
save_scan_result(disk, result, order, capacity, fault) ==
    IF fault.at = 1 THEN [disk |-> disk, ok |-> FALSE]
    ELSE IF fault.at = 2
    THEN [disk |-> [disk EXCEPT !.data_dir = TRUE,
                                !.stats = FailedWrite(disk.stats, fault.torn)],
          ok |-> FALSE]
    ELSE LET r == SaveLoop(disk.chunks, result.metadata, order, 1, 0, 0, capacity, fault)
         IN  [disk |-> [data_dir |-> TRUE, stats |-> Json(StatsOf(result)),
                        chunks |-> r.chunks],
              ok |-> r.ok]

\* Faulty variant of MergeChunk: a path already in the result keeps its record.
MergeChunkKeepFirst(result, data) ==
    LET paths == {data[k].path : k \in DOMAIN data}
    IN  [p \in DOMAIN result \cup paths |->
            IF p \in DOMAIN result THEN result[p]
            ELSE Deserialize(data[CHOOSE k \in DOMAIN data : data[k].path = p])]

\* The records of one parsed chunk merged into the result of a load
\* (lines 100-102: keyed by the record's own path).
MergeChunk(result, data) ==
    LET paths == {data[k].path : k \in DOMAIN data}
    IN  [p \in DOMAIN result \cup paths |->
            IF p \in paths
            THEN Deserialize(data[CHOOSE k \in DOMAIN data : data[k].path = p])
            ELSE result[p]]

\* Faulty variant of LoadLoop: a chunk file that cannot be read or parsed is skipped.
RECURSIVE LoadLoopSkipping(_, _, _)
LoadLoopSkipping(chunks0, entries, result) ==
    IF entries = <<>> THEN [ok |-> TRUE, catalog |-> result]
    ELSE LET file == chunks0[Head(entries)]
         IN  IF file.kind # "json" THEN LoadLoopSkipping(chunks0, Tail(entries), result)
             ELSE LoadLoopSkipping(chunks0, Tail(entries), MergeChunk(result, file.data))

\* The loop of load_file_metadata over the chunk files in directory-listing
\* order.
RECURSIVE LoadLoop(_, _, _)
LoadLoop(chunks0, entries, result) ==
    IF entries = <<>> THEN [ok |-> TRUE, catalog |-> result]
    ELSE LET file == chunks0[Head(entries)]
         IN  IF file.kind # "json" THEN [ok |-> FALSE]
             ELSE LoadLoop(chunks0, Tail(entries), MergeChunk(result, file.data))

\* Faulty variant of load_file_metadata: without the data_dir.exists() test, read_dir
\* fails on the missing directory and the error propagates.
load_file_metadata_unguarded(disk, entries) ==
    IF ~disk.data_dir THEN [ok |-> FALSE]
    ELSE LoadLoop(disk.chunks, entries, EmptyMap)

\* load_file_metadata; `entries` is the order in which read_dir lists the
\* files named metadata_chunk_*.
load_file_metadata(disk, entries) ==
    IF ~disk.data_dir THEN [ok |-> TRUE, catalog |-> EmptyMap]
    ELSE LoadLoop(disk.chunks, entries, EmptyMap)

\* ------------------------------------------------------------------- state
VARIABLES
    chunk_size,   \* the chunk capacity of this run (storage.rs:49)
    data_dir,     \* whether <config_dir>/data exists
    stats,        \* data/latest_stats.json
    chunks,       \* data/metadata_chunk_<i>.json, per chunk number i
    listing,      \* the order in which read_dir lists the chunk files
    files,        \* the scanned file system
    excluded,     \* Config.excluded_paths
    call,         \* the latest call: its operation, arguments and result
    threads       \* the calls in progress on other threads, each with its position

vars == <<chunk_size, data_dir, stats, chunks, listing, files, excluded, call, threads>>

Disk == [data_dir |-> data_dir, stats |-> stats, chunks |-> chunks]

ExistingChunks(ch) == {c \in ChunkIds : ch[c].kind # "none"}

\* A directory listing after some files were created: the old entries keep
\* their relative order, a new entry appears anywhere.
IsSubsequence(old, new) ==
    \A i, j \in 1..Len(old) : i < j =>
        \E a, b \in 1..Len(new) : a < b /\ new[a] = old[i] /\ new[b] = old[j]
ListingsAfter(old, ch) == {l \in Orders(ExistingChunks(ch)) : IsSubsequence(old, l)}

\* A fresh installation: no data directory yet.
InitDisk ==
    /\ data_dir = FALSE
    /\ stats = NoFile
    /\ chunks = [c \in ChunkIds |-> NoFile]
    /\ listing = <<>>

\* No call is in progress on another thread.
NoThreads == [t \in {} |-> t]

InitStore ==
    /\ threads = NoThreads
    /\ chunk_size \in 1..MaxChunkSize
    /\ InitDisk
    /\ call = [op |-> "none"]

\* A call of save_scan_result(config_dir, result).  `fresh` tells that no chunk
\* file existed when it was called.
SaveScanResult ==
    \E result \in ScanResults :
    \E order \in Orders(DOMAIN result.metadata) :
    \E fault \in Faults(Len(order)) :
        \E r \in {save_scan_result(Disk, result, order, chunk_size, fault)} :
            /\ data_dir' = r.disk.data_dir
            /\ stats' = r.disk.stats
            /\ chunks' = r.disk.chunks
            /\ listing' \in ListingsAfter(listing, r.disk.chunks)
            /\ call' = [op |-> "save_scan_result", result |-> result, ok |-> r.ok,
                        fresh |-> ExistingChunks(chunks) = {},
                        malformed |-> {c \in ChunkIds : chunks[c].kind = "garbled"}]
            /\ UNCHANGED <<threads, chunk_size, files, excluded>>

\* Faulty variant of LoadFileMetadata: the load creates the data directory, as
\* the save does.
LoadFileMetadataWriting ==
    /\ call' = [op |-> "load_file_metadata",
                before |-> Disk,
                ret |-> load_file_metadata(Disk, listing),
                again |-> call.op = "load_file_metadata",
                previous |-> IF call.op = "load_file_metadata" THEN call.ret
                             ELSE [ok |-> FALSE]]
    /\ data_dir' = TRUE
    /\ UNCHANGED <<threads, chunk_size, stats, chunks, listing, files, excluded>>

\* A call of load_file_metadata(config_dir).  `before` is the storage
\* directory when it was called, `again` tells that the previous call was a
\* load too, and `previous` is what that one returned.
LoadFileMetadata ==
    /\ call' = [op |-> "load_file_metadata",
                before |-> Disk,
                ret |-> load_file_metadata(Disk, listing),
                again |-> call.op = "load_file_metadata",
                previous |-> IF call.op = "load_file_metadata" THEN call.ret
                             ELSE [ok |-> FALSE]]
    /\ UNCHANGED <<threads, chunk_size, data_dir, stats, chunks, listing, files, excluded>>

Init ==
    /\ InitStore
    /\ files = [p \in Paths |-> NoEntry]
    /\ excluded = {}

Next == SaveScanResult \/ LoadFileMetadata

Spec == Init /\ [][Next]_vars

\* ---------------------------------------------------------- scan_drive
\* Faulty variant of scan_drive: a failed save is propagated, the caller gets an
\* empty result.
scan_drive_propagating(fs, excluded_paths, drive_path, now, disk, order, capacity, fault) ==
    LET result == Walk(fs, excluded_paths, drive_path, now)
        saved == save_scan_result(disk, result, order, capacity, fault)
    IN  [ret |-> IF saved.ok THEN result ELSE EmptyScanResult,
         disk |-> saved.disk, saved |-> saved.ok]

\* scan_drive(drive_path, config): the walk, then `let _ = save_scan_result`,
\* then the result.  `order` and `fault` are the iteration order and the I/O
\* fault of the save.
scan_drive(fs, excluded_paths, drive_path, now, disk, order, capacity, fault) ==
    LET result == Walk(fs, excluded_paths, drive_path, now)
        saved == save_scan_result(disk, result, order, capacity, fault)
    IN  [ret |-> result, disk |-> saved.disk, saved |-> saved.ok]

InitScan ==
    /\ InitStore
    /\ files \in FileSystems
    /\ excluded \in SUBSET Paths

\* A call of scan_drive(drive_path, config).
ScanDrive ==
    \E drive_path \in Drives :
    \E order \in Orders(DOMAIN Walk(files, excluded, drive_path, Now).metadata) :
    \E fault \in Faults(Len(order)) :
        \E r \in {scan_drive(files, excluded, drive_path, Now, Disk, order, chunk_size, fault)} :
            /\ data_dir' = r.disk.data_dir
            /\ stats' = r.disk.stats
            /\ chunks' = r.disk.chunks
            /\ listing' \in ListingsAfter(listing, r.disk.chunks)
            /\ call' = [op |-> "scan_drive", drive_path |-> drive_path,
                        ret |-> r.ret, saved |-> r.saved]
            /\ UNCHANGED <<threads, chunk_size, files, excluded>>

NextScan == ScanDrive

SpecScan == InitScan /\ [][NextScan]_vars

\* ------------------------------------------------- find_duplicate_files
\* What fs::read returns for a path: an error, or the bytes of the file.
ReadError == [kind |-> "error"]
Bytes(b) == [kind |-> "bytes", bytes |-> b]
ReadResults == {ReadError, Bytes(<<7>>), Bytes(<<9>>), Bytes(<<7, 7>>)}

DupPaths == PathsUpTo(NumDupPaths)

\* Faulty variant of are_files_identical: the two read results are compared
\* as they are, so two files that both fail to read count as identical.
are_files_identical_lenient(contents, path1, path2) ==
    \/ /\ contents[path1].kind = "bytes"
       /\ contents[path2].kind = "bytes"
       /\ contents[path1].bytes = contents[path2].bytes
    \/ /\ contents[path1].kind = "error"
       /\ contents[path2].kind = "error"

\* are_files_identical: both files read and their bytes equal.
are_files_identical(contents, path1, path2) ==
    /\ contents[path1].kind = "bytes"
    /\ contents[path2].kind = "bytes"
    /\ contents[path1].bytes = contents[path2].bytes

\* Faulty variant of InnerStart: the inner loop starts at the first file again.
InnerStartFirst(i) == 1

\* The first index of the inner loop `for j in i + 1..files.len()`.
InnerStart(i) == i + 1

\* The two loops over one size group (lines 121-127), from indices (i, j) on.
RECURSIVE ComparePairs(_, _, _, _, _)
ComparePairs(group, contents, i, j, duplicates) ==
    IF i > Len(group) THEN duplicates
    ELSE IF j > Len(group)
    THEN ComparePairs(group, contents, i + 1, InnerStart(i + 1), duplicates)
    ELSE ComparePairs(group, contents, i, j + 1,
                      IF are_files_identical(contents, group[i], group[j])
                      THEN Append(duplicates, <<group[i], group[j]>>)
                      ELSE duplicates)

\* The loop over the size groups with more than one file, in the order
\* `sizes` in which size_map yields them.
RECURSIVE CompareGroups(_, _, _, _, _)
CompareGroups(metadata, order, contents, sizes, duplicates) ==
    IF sizes = <<>> THEN duplicates
    ELSE LET group == SelectSeq(order, LAMBDA p : metadata[p].size = Head(sizes))
         IN  CompareGroups(metadata, order, contents, Tail(sizes),
                           IF Len(group) > 1
                           THEN ComparePairs(group, contents, 1, InnerStart(1), duplicates)
                           ELSE duplicates)

\* find_duplicate_files(metadata): `order` is the iteration order of metadata
\* (it fixes the order inside each size group), `sizes` the iteration order of
\* size_map.
find_duplicate_files(metadata, contents, order, sizes) ==
    CompareGroups(metadata, order, contents, sizes, <<>>)

\* The inputs of the duplicate detector: a catalog and what reading each of
\* its paths returns.
DupInputs ==
    UNION { {[op |-> "input", metadata |-> m, contents |-> c] :
                c \in [DOMAIN m -> ReadResults]} : m \in WalkMaps(DupPaths) }

InitDup ==
    /\ threads = NoThreads
    /\ chunk_size = MaxChunkSize
    /\ InitDisk
    /\ files = [p \in Paths |-> NoEntry]
    /\ excluded = {}
    /\ call \in DupInputs

\* A call of find_duplicate_files(metadata).
FindDuplicateFiles ==
    /\ call.op = "input"
    /\ \E order \in Orders(DOMAIN call.metadata) :
       \E sizes \in Orders({call.metadata[p].size : p \in DOMAIN call.metadata}) :
           call' = [op |-> "find_duplicate_files",
                    metadata |-> call.metadata, contents |-> call.contents,
                    ret |-> find_duplicate_files(call.metadata, call.contents, order, sizes)]
    /\ UNCHANGED <<threads, chunk_size, data_dir, stats, chunks, listing, files, excluded>>

NextDup == FindDuplicateFiles

SpecDup == InitDup /\ [][NextDup]_vars

\* ------------------------------------------------- one scan of a larger tree
\* The number of paths of the file system of a single scan.
NumWalkPaths == 3

WalkPaths == PathsUpTo(NumWalkPaths)

\* A fresh installation with the largest chunk capacity and a file system over
\* WalkPaths, one of whose paths has no extension.
InitWalk ==
    /\ threads = NoThreads
    /\ chunk_size = MaxChunkSize
    /\ InitDisk
    /\ call = [op |-> "none"]
    /\ files \in [WalkPaths -> FileStates]
    /\ excluded \in SUBSET WalkPaths

\* The first scan_drive call of the installation.
FirstScanDrive == call.op = "none" /\ ScanDrive

NextWalk == FirstScanDrive

SpecWalk == InitWalk /\ [][NextWalk]_vars

\* ------------------------------------- scan, load and duplicate detection
\* Faulty variant of CatalogAfterDetection: the second file of every reported
\* pair is linked to the first, and its is_duplicate flag is left alone.
CatalogAfterDetectionLinking(metadata, duplicates) ==
    [p \in DOMAIN metadata |->
        IF \E i \in 1..Len(duplicates) : duplicates[i][2] = p
        THEN [metadata[p] EXCEPT !.duplicate_of =
                 Some(duplicates[CHOOSE i \in 1..Len(duplicates) : duplicates[i][2] = p][1])]
        ELSE metadata[p]]

\* The caller's catalog after find_duplicate_files(&catalog) returned
\* `duplicates`: the catalog is borrowed immutably and the list is returned by
\* value, so the catalog is what it was.
CatalogAfterDetection(metadata, duplicates) == metadata

\* find_duplicate_files on the catalog the latest load returned; what reading
\* each file gives is up to the file system at that moment.
DetectDuplicates ==
    /\ call.op = "load_file_metadata"
    /\ call.ret.ok
    /\ \E contents \in [DOMAIN call.ret.catalog -> ReadResults] :
       \E order \in Orders(DOMAIN call.ret.catalog) :
       \E sizes \in Orders({call.ret.catalog[p].size : p \in DOMAIN call.ret.catalog}) :
       \E duplicates \in {find_duplicate_files(call.ret.catalog, contents, order, sizes)} :
           call' = [op |-> "find_duplicate_files",
                    metadata |-> call.ret.catalog, contents |-> contents,
                    ret |-> duplicates,
                    catalog |-> CatalogAfterDetection(call.ret.catalog, duplicates)]
    /\ UNCHANGED <<threads, chunk_size, data_dir, stats, chunks, listing, files, excluded>>

NextPipeline == ScanDrive \/ LoadFileMetadata \/ DetectDuplicates

SpecPipeline == InitScan /\ [][NextPipeline]_vars

\* ------------------------------------------------- concurrent saves and load
\* The threads: the initial scan (main.rs:177) and a scan started through the
\* API (api.rs:117), both at their save_scan_result call, and a request
\* handler calling load_file_metadata.  No lock is held around either call.
Savers == {"initial_scan", "api_scan"}
Loader == "load"

\* The results the two scans save: records of files of length len.
ConcResults(len) ==
    {r \in ScanResults :
        /\ r.metadata # EmptyMap
        /\ \A p \in DOMAIN r.metadata : r.metadata[p].size = len}

\* A save_scan_result call not yet started.  `overlapped` tells that another
\* save was in progress when this one started, `overwritten` that another
\* thread wrote the chunk file between this thread's truncation and its write.
IdleSaver(result) ==
    [pc |-> "idle", result |-> result, order |-> <<>>, k |-> 1,
     current_chunk |-> 0, current_index |-> 0, chunk_data |-> EmptyMap,
     overlapped |-> FALSE, overwritten |-> FALSE]

\* A load_file_metadata call not yet started.  `start` is what a load of the
\* directory as it was at the start returns, `disturbed` tells that a chunk
\* file was written during the load, `mid_rewrite` that the load read a chunk
\* file between its truncation and its write.
IdleLoader ==
    [pc |-> "idle", entries |-> <<>>, result |-> EmptyMap, ret |-> [ok |-> FALSE],
     start |-> [ok |-> FALSE], disturbed |-> FALSE, mid_rewrite |-> FALSE]

Running(t) == threads[t].pc \notin {"idle", "done"}

InitConc ==
    /\ chunk_size \in 1..MaxChunkSize
    /\ InitDisk
    /\ call = [op |-> "none"]
    /\ files = [p \in Paths |-> NoEntry]
    /\ excluded = {}
    /\ \E r1 \in ConcResults(1), r2 \in ConcResults(2) :
          threads = [t \in Savers \cup {Loader} |->
                        IF t = "initial_scan" THEN IdleSaver(r1)
                        ELSE IF t = "api_scan" THEN IdleSaver(r2)
                        ELSE IdleLoader]

\* The other threads after thread t wrote (truncated, when fill is FALSE)
\* chunk file c: a load in progress is disturbed, and a saver between its
\* truncation and its write of c has its file written under it.
AfterWrite(t, mine, c, fill) ==
    [u \in DOMAIN threads |->
        IF u = t THEN mine
        ELSE IF u = Loader
        THEN [threads[u] EXCEPT !.disturbed = @ \/ threads[u].pc = "read"]
        ELSE IF threads[u].pc = "fill" /\ threads[u].current_chunk = c
        THEN [threads[u] EXCEPT !.overwritten = fill]
        ELSE threads[u]]

\* save_scan_result up to its loop: create_dir_all and the stats write.
SaveStart(t) ==
    /\ threads[t].pc = "idle"
    /\ \E order \in Orders(DOMAIN threads[t].result.metadata) :
          threads' = [threads EXCEPT ![t] =
                         [@ EXCEPT !.pc = "read", !.order = order,
                                   !.overlapped = \E u \in Savers \ {t} : Running(u)]]
    /\ data_dir' = TRUE
    /\ stats' = Json(StatsOf(threads[t].result))
    /\ UNCHANGED <<chunk_size, chunks, listing, files, excluded, call>>

\* One iteration of the loop, lines 54-71: the chunk number, the read of the
\* chunk file and the insert into the map read.
SaveRead(t) ==
    /\ threads[t].pc = "read"
    /\ LET s == threads[t]
           path == s.order[s.k]
           chunk == IF s.current_index % chunk_size = 0
                    THEN s.current_chunk + 1 ELSE s.current_chunk
       IN  threads' = [threads EXCEPT ![t] =
                          [s EXCEPT !.pc = "truncate", !.current_chunk = chunk,
                                    !.chunk_data = Insert(ReadChunk(chunks[chunk]), path,
                                                          Serialize(s.result.metadata[path]))]]
    /\ UNCHANGED <<chunk_size, data_dir, stats, chunks, listing, files, excluded, call>>

\* fs::write, line 74, first half: the chunk file is created or truncated in
\* place.
SaveTruncate(t) ==
    /\ threads[t].pc = "truncate"
    /\ LET c == threads[t].current_chunk
       IN  /\ chunks' = [chunks EXCEPT ![c] = Garbled]
           /\ listing' \in ListingsAfter(listing, chunks')
           /\ threads' = AfterWrite(t, [threads[t] EXCEPT !.pc = "fill", !.overwritten = FALSE],
                                    c, FALSE)
    /\ UNCHANGED <<chunk_size, data_dir, stats, files, excluded, call>>

\* fs::write, line 74, second half: the text is written from offset 0; when
\* another thread wrote the file since the truncation, what is left of its
\* text can follow.  Then current_index += 1 and the next iteration.
SaveFill(t) ==
    /\ threads[t].pc = "fill"
    /\ LET s == threads[t]
           c == s.current_chunk
       IN  /\ \E content \in {Json(s.chunk_data)} \cup (IF s.overwritten THEN {Garbled} ELSE {}) :
                 chunks' = [chunks EXCEPT ![c] = content]
           /\ threads' = AfterWrite(t, [s EXCEPT !.pc = IF s.k = Len(s.order) THEN "done" ELSE "read",
                                                 !.k = @ + 1, !.current_index = @ + 1,
                                                 !.overwritten = FALSE],
                                    c, TRUE)
    /\ UNCHANGED <<chunk_size, data_dir, stats, listing, files, excluded, call>>

\* load_file_metadata up to its loop: the data_dir.exists() test and read_dir.
LoadStart ==
    /\ threads[Loader].pc = "idle"
    /\ LET start == load_file_metadata(Disk, listing)
       IN  threads' = [threads EXCEPT ![Loader] =
                          IF ~data_dir \/ listing = <<>>
                          THEN [@ EXCEPT !.pc = "done", !.ret = start, !.start = start]
                          ELSE [@ EXCEPT !.pc = "read", !.entries = listing, !.start = start]]
    /\ UNCHANGED <<chunk_size, data_dir, stats, chunks, listing, files, excluded, call>>

\* One iteration of the loop, lines 92-103: one chunk file read, parsed and
\* merged, or the error returned.
LoadRead ==
    /\ threads[Loader].pc = "read"
    /\ LET l == threads[Loader]
           c == Head(l.entries)
           r == LoadLoop(chunks, <<c>>, l.result)
           mid == \/ l.mid_rewrite
                  \/ /\ chunks[c].kind = "garbled"
                     /\ \E u \in Savers : threads[u].pc = "fill" /\ threads[u].current_chunk = c
       IN  threads' = [threads EXCEPT ![Loader] =
                          IF ~r.ok
                          THEN [l EXCEPT !.pc = "done", !.ret = r, !.mid_rewrite = mid]
                          ELSE IF Tail(l.entries) = <<>>
                          THEN [l EXCEPT !.pc = "done", !.ret = r, !.mid_rewrite = mid,
                                         !.result = r.catalog, !.entries = <<>>]
                          ELSE [l EXCEPT !.result = r.catalog, !.entries = Tail(l.entries),
                                         !.mid_rewrite = mid]]
    /\ UNCHANGED <<chunk_size, data_dir, stats, chunks, listing, files, excluded, call>>

NextConc ==
    \/ \E t \in Savers : SaveStart(t) \/ SaveRead(t) \/ SaveTruncate(t) \/ SaveFill(t)
    \/ LoadStart
    \/ LoadRead

SpecConc == InitConc /\ [][NextConc]_vars

\* ------------------------------------------- concurrent scans and the config lock
\* The number of scan_drive calls running at once.
NumScanThreads == 2

ScanThreads == 1..NumScanThreads

\* Where the walk loop goes for its i-th entry: to the lock of the next file,
\* or out of the loop to the save.
LoopHead(entries, i) == IF i > Len(entries) THEN "save" ELSE "lock"

\* A scan_drive call at the head of its walk loop.  `config_guard` tells that
\* the thread holds a guard of the configuration mutex, `acquired` counts its
\* lock() calls.
StartedScan(entries, drive_path) ==
    [pc |-> LoopHead(entries, 1), drive_path |-> drive_path, entries |-> entries, i |-> 1,
     config_guard |-> FALSE, acquired |-> 0, result |-> EmptyScanResult]

InitLock ==
    /\ chunk_size = MaxChunkSize
    /\ InitDisk
    /\ call = [op |-> "none"]
    /\ files \in FileSystems
    /\ excluded \in SUBSET Paths
    /\ \E drive \in [ScanThreads -> Drives] :
          threads = [t \in ScanThreads |-> StartedScan(WalkEntries(files, drive[t]), drive[t])]

\* Faulty variant of HeldAfterTest: without drop(config_guard) the guard of a
\* file that is not excluded lives to the end of the loop body.
HeldAfterTestNoDrop(is_excluded) == ~is_excluded

\* Whether the thread still holds the guard after the exclusion test: no,
\* `continue` ends the guard's scope and the other path calls
\* drop(config_guard).
HeldAfterTest(is_excluded) == FALSE

\* config.lock().unwrap(): blocks while another thread holds a guard.
LockConfig(t) ==
    /\ threads[t].pc = "lock"
    /\ \A u \in ScanThreads : ~threads[u].config_guard
    /\ threads' = [threads EXCEPT ![t] =
                      [@ EXCEPT !.pc = "test", !.config_guard = TRUE, !.acquired = @ + 1]]
    /\ UNCHANGED <<chunk_size, data_dir, stats, chunks, listing, files, excluded, call>>

\* if config_guard.is_path_excluded(path) { continue; } drop(config_guard);
TestExcluded(t) ==
    /\ threads[t].pc = "test"
    /\ LET s == threads[t]
           is_excluded == is_path_excluded(excluded, s.entries[s.i])
       IN  threads' = [threads EXCEPT ![t] =
                          IF is_excluded
                          THEN [s EXCEPT !.pc = LoopHead(s.entries, s.i + 1), !.i = @ + 1,
                                         !.config_guard = HeldAfterTest(TRUE)]
                          ELSE [s EXCEPT !.pc = "metadata",
                                         !.config_guard = HeldAfterTest(FALSE)]]
    /\ UNCHANGED <<chunk_size, data_dir, stats, chunks, listing, files, excluded, call>>

\* std::fs::metadata(path): on an error the loop continues.
ReadMetadata(t) ==
    /\ threads[t].pc = "metadata"
    /\ LET s == threads[t]
       IN  threads' = [threads EXCEPT ![t] =
                          IF files[s.entries[s.i]].stat_ok
                          THEN [s EXCEPT !.pc = "analyze"]
                          ELSE [s EXCEPT !.pc = LoopHead(s.entries, s.i + 1), !.i = @ + 1,
                                         !.config_guard = FALSE]]
    /\ UNCHANGED <<chunk_size, data_dir, stats, chunks, listing, files, excluded, call>>

\* The rest of the loop body: the counters, analyze_file and the insert.
AnalyzeEntry(t) ==
    /\ threads[t].pc = "analyze"
    /\ LET s == threads[t]
           path == s.entries[s.i]
       IN  threads' = [threads EXCEPT ![t] =
                          [s EXCEPT !.pc = LoopHead(s.entries, s.i + 1), !.i = @ + 1,
                                    !.config_guard = FALSE,
                                    !.result = VisitEntry(s.result, path, files[path],
                                                          excluded, Now)]]
    /\ UNCHANGED <<chunk_size, data_dir, stats, chunks, listing, files, excluded, call>>

\* let _ = save_scan_result(&config_dir, &result); result
SaveResult(t) ==
    /\ threads[t].pc = "save"
    /\ \E order \in Orders(DOMAIN threads[t].result.metadata) :
       \E fault \in Faults(Len(order)) :
       \E r \in {save_scan_result(Disk, threads[t].result, order, chunk_size, fault)} :
           /\ data_dir' = r.disk.data_dir
           /\ stats' = r.disk.stats
           /\ chunks' = r.disk.chunks
           /\ listing' \in ListingsAfter(listing, r.disk.chunks)
    /\ threads' = [threads EXCEPT ![t] = [@ EXCEPT !.pc = "done"]]
    /\ UNCHANGED <<chunk_size, files, excluded, call>>

NextLock ==
    \E t \in ScanThreads :
        LockConfig(t) \/ TestExcluded(t) \/ ReadMetadata(t) \/ AnalyzeEntry(t) \/ SaveResult(t)

SpecLock == InitLock /\ [][NextLock]_vars

\* ------------------------------------------------------ get_all_drives
\* The most lines the mount table holds.
MaxMountLines == 2

\* Strings are sequences of characters, so that prefixes and fields are
\* computed.  One line of /proc/mounts, with the mount point it declares
\* (None when the line has fewer than two fields).
MountLines ==
    {[text |-> <<"d", " ", "/">>, mount_point |-> Some(<<"/">>)],
     [text |-> <<"d", " ", "/", "p", "r", "o", "c">>, mount_point |-> Some(<<"/", "p", "r", "o", "c">>)],
     [text |-> <<"d", " ", "/", "s", "y", "s">>, mount_point |-> Some(<<"/", "s", "y", "s">>)],
     [text |-> <<"d", " ", "/", "d", "e", "v", "/", "s", "h", "m">>, mount_point |-> Some(<<"/", "d", "e", "v", "/", "s", "h", "m">>)],
     [text |-> <<"d", " ", "/", "r", "u", "n">>, mount_point |-> Some(<<"/", "r", "u", "n">>)],
     [text |-> <<"d", " ", "/", "r", "u", "n", "s">>, mount_point |-> Some(<<"/", "r", "u", "n", "s">>)],
     [text |-> <<"d", " ", "/", "p", "r", "o">>, mount_point |-> Some(<<"/", "p", "r", "o">>)],
     [text |-> <<"d", " ", "/", "h", "o", "m", "e">>, mount_point |-> Some(<<"/", "h", "o", "m", "e">>)],
     [text |-> <<" ", " ", "d", " ", "\t", " ", "/", "m", "n", "t", " ", " ", "x">>, mount_point |-> Some(<<"/", "m", "n", "t">>)],
     [text |-> <<"d", " ", "/", "/">>, mount_point |-> Some(<<"/", "/">>)],
     [text |-> <<"d", " ", "/", "h", "o", "m", "e", "/", "d", "e", "v">>, mount_point |-> Some(<<"/", "h", "o", "m", "e", "/", "d", "e", "v">>)],
     [text |-> <<"d", " ", "/", "d", "e", "v", "\r">>, mount_point |-> Some(<<"/", "d", "e", "v">>)],
     [text |-> <<"d">>, mount_point |-> None],
     [text |-> <<>>, mount_point |-> None]}

RootPath == <<"/">>

PseudoPrefixes == {<<"/", "p", "r", "o", "c">>, <<"/", "s", "y", "s">>, <<"/", "d", "e", "v">>, <<"/", "r", "u", "n">>}

\* str::starts_with
starts_with(s, prefix) ==
    Len(s) >= Len(prefix) /\ SubSeq(s, 1, Len(prefix)) = prefix

\* str::lines: split at line feeds, a final carriage return of a line is
\* dropped, and an empty piece after the last line feed is no line.
RECURSIVE LinesFrom(_, _, _)
LinesFrom(content, i, line) ==
    LET strip(l) == IF l # <<>> /\ l[Len(l)] = "\r" THEN SubSeq(l, 1, Len(l) - 1) ELSE l
    IN  IF i > Len(content) THEN (IF line = <<>> THEN <<>> ELSE <<strip(line)>>)
        ELSE IF content[i] = "\n" THEN <<strip(line)>> \o LinesFrom(content, i + 1, <<>>)
        ELSE LinesFrom(content, i + 1, Append(line, content[i]))

lines(content) == LinesFrom(content, 1, <<>>)

\* str::split_whitespace: the non-empty runs of non-whitespace characters.
RECURSIVE SplitFrom(_, _, _)
SplitFrom(line, i, word) ==
    LET flush == IF word = <<>> THEN <<>> ELSE <<word>>
    IN  IF i > Len(line) THEN flush
        ELSE IF line[i] \in {" ", "\t", "\r", "\n"} THEN flush \o SplitFrom(line, i + 1, <<>>)
        ELSE SplitFrom(line, i + 1, Append(word, line[i]))

split_whitespace(line) == SplitFrom(line, 1, <<>>)

\* Path equality compares components: repeated separators do not count.
RECURSIVE ComponentsFrom(_, _, _)
ComponentsFrom(path, i, name) ==
    LET flush == IF name = <<>> \/ name = <<".">> THEN <<>> ELSE <<name>>
    IN  IF i > Len(path) THEN flush
        ELSE IF path[i] = "/" THEN flush \o ComponentsFrom(path, i + 1, <<>>)
        ELSE ComponentsFrom(path, i + 1, Append(name, path[i]))

PathEq(p, q) ==
    /\ (p # <<>> /\ p[1] = "/") = (q # <<>> /\ q[1] = "/")
    /\ ComponentsFrom(p, 1, <<>>) = ComponentsFrom(q, 1, <<>>)

\* The loop over the lines of the mount table.
RECURSIVE DrivesLoop(_, _)
DrivesLoop(ls, i) ==
    IF i > Len(ls) THEN <<>>
    ELSE LET parts == split_whitespace(ls[i])
         IN  (IF /\ Len(parts) >= 2
                 /\ \A prefix \in PseudoPrefixes : ~starts_with(parts[2], prefix)
              THEN <<parts[2]>> ELSE <<>>) \o DrivesLoop(ls, i + 1)

\* Faulty variant of get_all_drives: the root file system is not added.
get_all_drives_no_root(mounts) ==
    IF mounts.ok THEN DrivesLoop(lines(mounts.content), 1) ELSE <<>>

\* get_all_drives on linux; mounts is the outcome of reading /proc/mounts.
get_all_drives(mounts) ==
    LET drives == IF mounts.ok THEN DrivesLoop(lines(mounts.content), 1) ELSE <<>>
    IN  IF \A i \in 1..Len(drives) : ~PathEq(drives[i], RootPath)
        THEN Append(drives, RootPath)
        ELSE drives

\* The text of a mount table: its lines, each ended by a line feed.
RECURSIVE Content(_)
Content(entries) ==
    IF entries = <<>> THEN <<>>
    ELSE Head(entries).text \o <<"\n">> \o Content(Tail(entries))

MountTables ==
    UNION {[1..n -> MountLines] : n \in 0..MaxMountLines}

DrivesInputs ==
    {[op |-> "input", readable |-> r, entries |-> e] :
        r \in BOOLEAN, e \in MountTables}

InitDrives ==
    /\ threads = NoThreads
    /\ chunk_size = MaxChunkSize
    /\ InitDisk
    /\ files = [p \in Paths |-> NoEntry]
    /\ excluded = {}
    /\ call \in DrivesInputs

GetAllDrives ==
    /\ call.op = "input"
    /\ call' = [op |-> "get_all_drives", readable |-> call.readable, entries |-> call.entries,
                ret |-> get_all_drives([ok |-> call.readable,
                                        content |-> Content(call.entries)])]
    /\ UNCHANGED <<threads, chunk_size, data_dir, stats, chunks, listing, files, excluded>>

NextDrives == GetAllDrives

SpecDrives == InitDrives /\ [][NextDrives]_vars

\* ------------------------------------------- calculate_importance_score
\* The last day (since the epoch) on which a scored file was modified; the
\* clock of the scoring stands at day 300, so the ages run from 300 days down
\* to a modification time in the future.
MaxModifiedDay == 301

ScoreClock == DateTime(300 * 86400, 0)

\* The categories determine_file_category can return.
Categories ==
    {"image", "video", "audio", "document", "spreadsheet", "presentation",
     "application", "archive", "other"}

\* Modification times: the start, the second second and the last second of
\* each day, with and without a sub-second part.
ModifiedTimes ==
    {DateTime(d * 86400 + s, n) : d \in 0..MaxModifiedDay, s \in {0, 1, 86399}, n \in {0, 500}}

ScoreInputs ==
    {[op |-> "input", category |-> c, modified |-> m, now |-> ScoreClock] :
        c \in Categories, m \in ModifiedTimes}

InitScore ==
    /\ threads = NoThreads
    /\ chunk_size = MaxChunkSize
    /\ InitDisk
    /\ files = [p \in Paths |-> NoEntry]
    /\ excluded = {}
    /\ call \in ScoreInputs

\* A call of calculate_importance_score(metadata) at clock reading call.now.
CalculateImportanceScore ==
    /\ call.op = "input"
    /\ call' = [op |-> "calculate_importance_score",
                category |-> call.category, modified |-> call.modified, now |-> call.now,
                ret |-> calculate_importance_score(
                            call.category, num_days(call.now, call.modified))]
    /\ UNCHANGED <<threads, chunk_size, data_dir, stats, chunks, listing, files, excluded>>

NextScore == CalculateImportanceScore

SpecScore == InitScore /\ [][NextScore]_vars

\* ------------------------------------------------------------------ claims
IsLoad == call.op = "load_file_metadata"
IsSave == call.op = "save_scan_result"

\* What load_file_metadata returns on the storage directory as it is now.
Reloaded == load_file_metadata(Disk, listing)

\* The latest call was a successful save into a storage directory without
\* chunk files.
FreshSaveDone == IsSave /\ call.fresh /\ call.ok

\* A record with every timestamp cut to whole seconds.
TruncatedToSeconds(m) ==
    [m EXCEPT !.created = DateTime(m.created.secs, 0),
              !.modified = DateTime(m.modified.secs, 0),
              !.last_accessed = DateTime(m.last_accessed.secs, 0)]

\* The chunk files that hold a record for path p.
ChunksHolding(ch, p) == {c \in ChunkIds : ch[c].kind = "json" /\ p \in DOMAIN ch[c].data}

\* C1 as stated: after a successful save of M into an empty storage
\* directory, load returns exactly M, field for field.
C1_RoundTripExact ==
    FreshSaveDone =>
        /\ Reloaded.ok
        /\ Reloaded.catalog = call.result.metadata

\* C1 amended: after a successful save of M into an empty storage directory,
\* load returns the key set of M and, for each path, the record of M with its
\* three timestamps cut to whole seconds, for every chunk capacity.
C1_RoundTripToSeconds ==
    FreshSaveDone =>
        /\ Reloaded.ok
        /\ DOMAIN Reloaded.catalog = DOMAIN call.result.metadata
        /\ \A p \in DOMAIN Reloaded.catalog :
              Reloaded.catalog[p] = TruncatedToSeconds(call.result.metadata[p])

\* C1 witness: such a save wrote NumPaths records, split over more than one
\* chunk file, one of them with sub-second timestamps.
C1_Witness ==
    /\ FreshSaveDone
    /\ Cardinality(DOMAIN call.result.metadata) = NumPaths
    /\ Cardinality(ExistingChunks(chunks)) > 1
    /\ \E p \in DOMAIN call.result.metadata : call.result.metadata[p].modified.nsecs # 0

C3_LastWriteWins ==
    (IsSave /\ call.ok /\ Reloaded.ok) =>
        \A p \in DOMAIN call.result.metadata :
            /\ p \in DOMAIN Reloaded.catalog
            /\ Reloaded.catalog[p] = TruncatedToSeconds(call.result.metadata[p])

\* The last chunk file, in listing order, that holds a record for path p.
LastHolding(ch, l, p) ==
    l[CHOOSE i \in 1..Len(l) :
          /\ l[i] \in ChunksHolding(ch, p)
          /\ \A j \in (i + 1)..Len(l) : l[j] \notin ChunksHolding(ch, p)]

\* C4: a successful load returns one record per path found in any chunk file,
\* and for a path held by several chunk files it is the record of the chunk
\* file listed last.
C4_LastParsedWins ==
    (IsLoad /\ call.ret.ok /\ data_dir) =>
        /\ DOMAIN call.ret.catalog = {p \in Paths : ChunksHolding(chunks, p) # {}}
        /\ \A p \in DOMAIN call.ret.catalog :
              Serialize(call.ret.catalog[p]) = chunks[LastHolding(chunks, listing, p)].data[p]

\* C4 witness: a load returned a path that two chunk files hold with
\* different records.
C4_Witness ==
    /\ IsLoad /\ call.ret.ok
    /\ \E p \in DOMAIN call.ret.catalog :
          \E c, d \in ChunksHolding(chunks, p) : chunks[c].data[p] # chunks[d].data[p]

C6_MissingDirIsEmpty ==
    (IsLoad /\ ~call.before.data_dir) =>
        /\ call.ret = [ok |-> TRUE, catalog |-> EmptyMap]
        /\ ~data_dir

\* C6 witness: a load was made while the data directory did not exist.
C6_Witness == IsLoad /\ ~call.before.data_dir /\ call.ret.ok

IsScan == call.op = "scan_drive"

\* The files a walk of root records: regular files below it that are not
\* excluded and whose metadata can be read.
Eligible(root) ==
    {p \in Paths : files[p].kind = "file" /\ Under(root, p) /\ p \notin excluded
                   /\ files[p].stat_ok}

RECURSIVE SumLen(_)
SumLen(S) == IF S = {} THEN 0
             ELSE LET p == CHOOSE x \in S : TRUE
                  IN  files[p].md.len + SumLen(S \ {p})

Without(fs, P) == [p \in DOMAIN fs |-> IF p \in P THEN NoEntry ELSE fs[p]]

\* C9: no excluded path has a record in the result of a walk, and the result
\* (records, total_files, total_size, file_types) is the one a walk without
\* exclusions returns on the file system with the excluded files removed.
C9_ExclusionLaw ==
    IsScan =>
        /\ \A p \in excluded : p \notin DOMAIN call.ret.metadata
        /\ call.ret = Walk(Without(files, excluded), {}, call.drive_path, Now)

\* C9 witness: a scan of a root that holds an excluded readable file and a
\* file that is not excluded.
C9_Witness ==
    /\ IsScan
    /\ \E p \in excluded : files[p].kind = "file" /\ files[p].stat_ok
                           /\ Under(call.drive_path, p)
    /\ call.ret.total_files > 0

IsDup == call.op = "find_duplicate_files"

\* Two distinct catalog paths of equal recorded size whose contents are
\* readable and byte-identical.
Identical(p, q) ==
    /\ p # q
    /\ call.metadata[p].size = call.metadata[q].size
    /\ call.contents[p].kind = "bytes"
    /\ call.contents[q].kind = "bytes"
    /\ call.contents[p].bytes = call.contents[q].bytes

\* How often the pair (p, q) is reported, in either order.
Reported(p, q) ==
    Cardinality({i \in 1..Len(call.ret) : call.ret[i] \in {<<p, q>>, <<q, p>>}})

\* C10: every two identical files of equal recorded size are reported as a
\* pair exactly once, in one order only, and k mutually identical files are
\* reported as k(k-1)/2 pairs.
C10_DuplicatesComplete ==
    IsDup =>
        /\ \A p, q \in DOMAIN call.metadata : Identical(p, q) => Reported(p, q) = 1
        /\ \A p \in DOMAIN call.metadata :
              LET K == {p} \cup {q \in DOMAIN call.metadata : Identical(p, q)}
                  k == Cardinality(K)
              IN  2 * Cardinality({i \in 1..Len(call.ret) :
                                      call.ret[i][1] \in K /\ call.ret[i][2] \in K})
                  = k * (k - 1)

\* C10 witness: NumDupPaths mutually identical files were compared.
C10_Witness ==
    /\ IsDup
    /\ Cardinality(DOMAIN call.metadata) = NumDupPaths
    /\ \A p, q \in DOMAIN call.metadata : p # q => Identical(p, q)

\* C11: every reported pair is made of two distinct catalog paths of equal
\* recorded size whose contents were both read and are byte-identical; so a
\* pair of differing content, a file of unshared size and a file that cannot
\* be read are never reported.
C11_DuplicatesSound ==
    IsDup =>
        \A i \in 1..Len(call.ret) :
            /\ call.ret[i][1] \in DOMAIN call.metadata
            /\ call.ret[i][2] \in DOMAIN call.metadata
            /\ Identical(call.ret[i][1], call.ret[i][2])

\* C11 witness: a call that reported a pair although the catalog also holds,
\* with the same recorded size, a file that cannot be read.
C11_Witness ==
    /\ IsDup
    /\ call.ret # <<>>
    /\ \E p, q \in DOMAIN call.metadata :
          /\ p # q
          /\ call.metadata[p].size = call.metadata[q].size
          /\ call.contents[p].kind = "error"

IsScore == call.op = "calculate_importance_score"

\* The modification happened less than n whole days before the clock reading
\* (a modification time in the future counts as less than any n).
YoungerThan(n) ==
    \/ call.modified.secs + n * 86400 > call.now.secs
    \/ /\ call.modified.secs + n * 86400 = call.now.secs
       /\ call.modified.nsecs > call.now.nsecs

RecencyBonus ==
    IF YoungerThan(7) THEN 30
    ELSE IF YoungerThan(30) THEN 20
    ELSE IF YoungerThan(90) THEN 10
    ELSE 0

CategoryBonus ==
    CASE call.category = "document" -> 25
      [] call.category = "spreadsheet" -> 20
      [] call.category = "presentation" -> 20
      [] call.category = "image" -> 15
      [] call.category = "video" -> 15
      [] call.category = "audio" -> 10
      [] call.category = "application" -> 5
      [] call.category = "archive" -> 0
      [] call.category = "other" -> 0

\* C12: the score is the recency bonus of the whole days since modification
\* plus the category bonus; a document modified 2 days ago scores 55, an
\* 'other' file modified 200 days ago scores 0.
C12_ScoreTable ==
    IsScore =>
        /\ call.ret = RecencyBonus + CategoryBonus
        /\ (call.category = "document" /\ call.modified = DateTime(298 * 86400, 0))
              => call.ret = 55
        /\ (call.category = "other" /\ call.modified = DateTime(100 * 86400, 0))
              => call.ret = 0

\* C12 witness: a document modified exactly 7 days before the clock reading
\* was scored (the first age that no longer earns 30).
C12_Witness ==
    /\ IsScore
    /\ call.category = "document"
    /\ call.modified = DateTime(293 * 86400, 0)
    /\ call.ret = 45

\* C13: the score is within 0..100 for every category and every age, a
\* modification time in the future included.
C13_ScoreClamp == IsScore => (call.ret >= 0 /\ call.ret <= 100)

\* C13 witness: a file with a modification time in the future was scored.
C13_Witness ==
    /\ IsScore
    /\ call.modified.secs > call.now.secs
    /\ call.ret = 55

IsDrives == call.op = "get_all_drives"

\* The mount point begins with the characters of /proc, /sys, /dev or /run.
Pseudo(m) ==
    \E prefix \in PseudoPrefixes :
        /\ Len(m) >= Len(prefix)
        /\ \A k \in 1..Len(prefix) : m[k] = prefix[k]

\* C14: the returned list holds no mount point starting with /proc, /sys,
\* /dev or /run, holds every other mount point of a readable table, and holds
\* '/' whatever the table is, also when it cannot be read; a list is always
\* returned.
C14_DriveEnumeration ==
    IsDrives =>
        /\ DOMAIN call.ret = 1..Len(call.ret)
        /\ \A i \in 1..Len(call.ret) : ~Pseudo(call.ret[i])
        /\ call.readable =>
              \A k \in 1..Len(call.entries) :
                  LET m == call.entries[k].mount_point
                  IN  (m # None /\ ~Pseudo(m[1])) =>
                          \E i \in 1..Len(call.ret) : call.ret[i] = m[1]
        /\ \E i \in 1..Len(call.ret) : PathEq(call.ret[i], RootPath)
        /\ ~call.readable => call.ret = <<RootPath>>

\* C14 witness: a readable table with a pseudo file system and another mount
\* point but no line for '/' was enumerated.
C14_Witness ==
    /\ IsDrives
    /\ call.readable
    /\ \E k \in 1..Len(call.entries) :
          call.entries[k].mount_point # None /\ Pseudo(call.entries[k].mount_point[1])
    /\ \A k \in 1..Len(call.entries) :
          call.entries[k].mount_point # None /\ call.entries[k].mount_point[1] # RootPath
    /\ Len(call.ret) = 2
    /\ call.ret[2] = RootPath

\* C15 as stated: whatever saves were made, no metadata chunk file holds more
\* records than the chunk capacity.
C15_ChunksBounded ==
    \A c \in ChunkIds :
        chunks[c].kind = "json" => Cardinality(DOMAIN chunks[c].data) <= chunk_size

\* C16 as stated: the insertion sequence number runs on from one save to the
\* next, so when a successful save of n records into an empty storage
\* directory is followed by a successful save of m records, each record of the
\* second save is in one of the chunks floor(n / capacity) + 1 ..
\* floor((n + m - 1) / capacity) + 1.
C16_GlobalSequence ==
    [][ (FreshSaveDone /\ IsSave' /\ call'.ok) =>
            LET n == Cardinality(DOMAIN call.result.metadata)
                m == Cardinality(DOMAIN call'.result.metadata)
            IN  \A p \in DOMAIN call'.result.metadata :
                    \E c \in ((n \div chunk_size) + 1)..(((n + m - 1) \div chunk_size) + 1) :
                        /\ c \in ChunksHolding(chunks', p)
                        /\ chunks'[c].data[p] = Serialize(call'.result.metadata[p]) ]_vars

IsDetect == call.op = "find_duplicate_files" /\ "catalog" \in DOMAIN call

\* The duplicate fields of a record are as the analyzer sets them, and the
\* record satisfies: duplicate_of = Some(p) implies is_duplicate.
DuplicateFieldsDefault(r) ==
    /\ r.is_duplicate = FALSE
    /\ r.duplicate_of = None
    /\ r.duplicate_of # None => r.is_duplicate = TRUE

\* C17: every record the analyzer produced, wherever scan, save and load
\* carried it (the result of the latest scan, the chunk files, the catalog the
\* latest load returned, the catalog handed to duplicate detection), has
\* is_duplicate = false and duplicate_of = None; duplicate detection leaves
\* its catalog as it was; so duplicate_of = Some(p) implies is_duplicate =
\* true in every record held.
C17_DuplicateFields ==
    /\ IsScan =>
          \A p \in DOMAIN call.ret.metadata : DuplicateFieldsDefault(call.ret.metadata[p])
    /\ \A c \in ChunkIds :
          chunks[c].kind = "json" =>
              \A k \in DOMAIN chunks[c].data : DuplicateFieldsDefault(chunks[c].data[k])
    /\ (IsLoad /\ call.ret.ok) =>
          \A p \in DOMAIN call.ret.catalog : DuplicateFieldsDefault(call.ret.catalog[p])
    /\ IsDetect =>
          /\ call.catalog = call.metadata
          /\ \A p \in DOMAIN call.catalog : DuplicateFieldsDefault(call.catalog[p])

\* C17 witness: duplicate detection reported a pair in a catalog that had been
\* scanned, saved and loaded.
C17_Witness ==
    /\ IsDetect
    /\ call.ret # <<>>
    /\ Cardinality(DOMAIN call.catalog) = NumPaths

\* C18 as stated: after every scan_drive call the stats file holds the totals
\* of that scan.
C18_StatsLatestScan == IsScan => stats = Json(StatsOf(call.ret))

\* C18 amended: a scan_drive call leaves in the stats file the total_files,
\* total_size and file_types of that scan alone, or, when its save failed,
\* what the file held before or unreadable content; never sums over earlier
\* scans.  After a scan whose save succeeded the file holds that scan's
\* totals.
C18_StatsLatestOrFailed ==
    [][ IsScan' =>
            /\ \/ stats' = Json(StatsOf(call'.ret))
               \/ ~call'.saved /\ stats' = stats
               \/ ~call'.saved /\ stats' = Garbled
            /\ call'.saved => stats' = Json(StatsOf(call'.ret)) ]_vars

\* C18 witness: a scan that found files was saved while the chunk files held
\* a path of an earlier scan that this scan did not record; the stats file
\* holds the totals of this scan.
C18_Witness ==
    /\ IsScan
    /\ call.saved
    /\ call.ret.total_files > 0
    /\ \E p \in Paths : ChunksHolding(chunks, p) # {} /\ p \notin DOMAIN call.ret.metadata
    /\ stats = Json(StatsOf(call.ret))

SavesDone == \A t \in Savers : threads[t].pc = "done"

LoadDone == threads[Loader].pc = "done"

\* C19: a record is lost only to an overlap: when the two saves ran one after
\* the other, every path of both results is in a chunk file once both have
\* completed (saves in this specification meet no I/O error); the witness is
\* the interleaving in which one is missing.
C19_SerialSavesKeepRecords ==
    (SavesDone /\ \A t \in Savers : ~threads[t].overlapped) =>
        \A t \in Savers : \A p \in DOMAIN threads[t].result.metadata :
            ChunksHolding(chunks, p) # {}

\* C19 witness: both saves have completed without error, every chunk file
\* holds JSON, and a path one of them wrote is in no chunk file.
C19_Witness ==
    /\ SavesDone
    /\ \A c \in ChunkIds : chunks[c].kind # "garbled"
    /\ \E t \in Savers : \E p \in DOMAIN threads[t].result.metadata :
          /\ ChunksHolding(chunks, p) = {}
          /\ \A u \in Savers \ {t} : p \notin DOMAIN threads[u].result.metadata

\* C20: a load that read a chunk file between its truncation and its write
\* fails, and a load during which no chunk file was written returns what the
\* directory held when it started; the witness is a load failing between two
\* loadable directory states.
C20_LoadSeesRewrite ==
    LoadDone =>
        /\ threads[Loader].mid_rewrite => ~threads[Loader].ret.ok
        /\ ~threads[Loader].disturbed => threads[Loader].ret = threads[Loader].start

\* C20 witness: the load read a chunk file mid-rewrite and failed, although
\* the directory loaded when the load started and loads now that the saves
\* have completed.
C20_Witness ==
    /\ LoadDone /\ SavesDone
    /\ threads[Loader].mid_rewrite
    /\ ~threads[Loader].ret.ok
    /\ threads[Loader].start.ok
    /\ threads[Loader].start.catalog # EmptyMap
    /\ Reloaded.ok

\* C21 as stated: when a save into a storage directory without chunk files
\* got past the stats write and then stopped at a chunk write, the records it
\* had written are loadable: load succeeds and returns records of the scan
\* only, as they were saved, one for each path found in a chunk file, fewer
\* than the scan has; the stats file describes the whole scan.
C21_PerRecordPersistence ==
    (IsSave /\ call.fresh /\ ~call.ok /\ data_dir /\ stats = Json(StatsOf(call.result))) =>
        /\ Reloaded.ok
        /\ DOMAIN Reloaded.catalog \subseteq DOMAIN call.result.metadata
        /\ DOMAIN Reloaded.catalog # DOMAIN call.result.metadata
        /\ \A p \in DOMAIN Reloaded.catalog :
              Reloaded.catalog[p] = TruncatedToSeconds(call.result.metadata[p])

\* The regular files below the root of the latest scan that are not excluded
\* and whose metadata can be read, over the whole file system.
Covered ==
    {p \in DOMAIN files : /\ files[p].kind = "file"
                          /\ Under(call.drive_path, p)
                          /\ p \notin excluded
                          /\ files[p].stat_ok}

RECURSIVE SumSizes(_, _)
SumSizes(metadata, S) ==
    IF S = {} THEN 0
    ELSE LET p == CHOOSE x \in S : TRUE
         IN  metadata[p].size + SumSizes(metadata, S \ {p})

RECURSIVE SumCounts(_, _)
SumCounts(file_types, S) ==
    IF S = {} THEN 0
    ELSE LET e == CHOOSE x \in S : TRUE
         IN  file_types[e] + SumCounts(file_types, S \ {e})

RecordsFor(order, c) ==
    {order[i + 1] : i \in {j \in 0..(Len(order) - 1) : (j \div chunk_size) + 1 = c}}

\* C23: a successful save of n records in some iteration order leaves chunk
\* floor(i / capacity) + 1 holding what it held (nothing, when it was absent
\* or unparsable) with the i-th record upserted, so that exactly the chunks
\* 1..ceil(n / capacity) are written, each taking at most capacity records of
\* the call, and every other chunk file is as it was (all of them, when n = 0).
C23_PerCallChunkIndex ==
    [][ (IsSave' /\ call'.ok) =>
            LET metadata == call'.result.metadata
                n == Cardinality(DOMAIN metadata)
                last == (n + chunk_size - 1) \div chunk_size
            IN  \E order \in Orders(DOMAIN metadata) :
                    \A c \in ChunkIds :
                        /\ Cardinality(RecordsFor(order, c)) <= chunk_size
                        /\ (RecordsFor(order, c) # {}) = (c \in 1..last)
                        /\ c \notin 1..last => chunks'[c] = chunks[c]
                        /\ c \in 1..last =>
                              /\ chunks'[c].kind = "json"
                              /\ DOMAIN chunks'[c].data
                                    = DOMAIN ReadChunk(chunks[c]) \cup RecordsFor(order, c)
                              /\ \A p \in DOMAIN chunks'[c].data :
                                    chunks'[c].data[p] =
                                        IF p \in RecordsFor(order, c) THEN Serialize(metadata[p])
                                        ELSE ReadChunk(chunks[c])[p] ]_vars

\* C23 witness: a successful save of NumPaths records with capacity 1 into a
\* storage directory that already had chunk files; chunk 1 and chunk 2 each
\* hold a record of the call.
C23_Witness ==
    /\ IsSave /\ call.ok /\ ~call.fresh
    /\ chunk_size = 1
    /\ Cardinality(DOMAIN call.result.metadata) = NumPaths
    /\ \A c \in 1..NumPaths :
          /\ chunks[c].kind = "json"
          /\ \E p \in DOMAIN call.result.metadata :
                /\ p \in DOMAIN chunks[c].data
                /\ chunks[c].data[p] = Serialize(call.result.metadata[p])

NoFault == [at |-> 0, torn |-> FALSE]

\* C25: a save that meets no I/O error returns Ok whatever chunk files are
\* unreadable or malformed; after a successful save, a chunk file that was
\* malformed and was a target of the call holds records of the call only (at
\* least one, at most capacity), as the call wrote them, so whatever it held
\* before is gone; a malformed chunk file the call did not target is as it was.
C25_MalformedChunkRewritten ==
    /\ \A result \in ScanResults : \A order \in Orders(DOMAIN result.metadata) :
          save_scan_result(Disk, result, order, chunk_size, NoFault).ok
    /\ (IsSave /\ call.ok) =>
          LET metadata == call.result.metadata
              last == (Cardinality(DOMAIN metadata) + chunk_size - 1) \div chunk_size
          IN  \A c \in call.malformed :
                  IF c \in 1..last
                  THEN /\ chunks[c].kind = "json"
                       /\ DOMAIN chunks[c].data # {}
                       /\ DOMAIN chunks[c].data \subseteq DOMAIN metadata
                       /\ Cardinality(DOMAIN chunks[c].data) <= chunk_size
                       /\ \A p \in DOMAIN chunks[c].data :
                             chunks[c].data[p] = Serialize(metadata[p])
                  ELSE chunks[c] = Garbled

\* C25 witness: a save of one record succeeded on a storage directory whose
\* chunk file 1 was malformed; the catalog now holds that record alone.
C25_Witness ==
    /\ IsSave /\ call.ok
    /\ 1 \in call.malformed
    /\ Cardinality(DOMAIN call.result.metadata) = 1
    /\ Reloaded.ok
    /\ DOMAIN Reloaded.catalog = DOMAIN call.result.metadata

\* C24: a scan holds a guard of the configuration mutex only between its
\* lock() and the end of the exclusion test, never while it reads metadata,
\* analyses a file or saves, and not at the head of the loop; at most one scan
\* holds a guard; each scan has locked once per file it has visited; and
\* while a scan is not finished some scan can take a step.
C24_ConfigLock ==
    /\ \A t \in ScanThreads :
          /\ threads[t].config_guard => threads[t].pc = "test"
          /\ threads[t].pc \in {"lock", "metadata", "analyze", "save", "done"}
                => ~threads[t].config_guard
          /\ threads[t].acquired =
                IF threads[t].pc = "lock" THEN threads[t].i - 1
                ELSE IF threads[t].pc \in {"save", "done"} THEN Len(threads[t].entries)
                ELSE threads[t].i
    /\ Cardinality({t \in ScanThreads : threads[t].config_guard}) <= 1
    /\ (\E t \in ScanThreads : threads[t].pc # "done") =>
          \E t \in ScanThreads :
              \/ threads[t].pc \in {"test", "metadata", "analyze", "save"}
              \/ /\ threads[t].pc = "lock"
                 /\ \A u \in ScanThreads : ~threads[u].config_guard

\* C24 witness: one scan holds the guard for the test of its second file, an
\* excluded one, after it recorded its first file, while another scan waits
\* for the lock.
C24_Witness ==
    \E t, u \in ScanThreads :
        /\ t # u
        /\ threads[t].pc = "test"
        /\ threads[t].config_guard
        /\ threads[t].acquired = 2
        /\ threads[t].result.total_files = 1
        /\ threads[t].entries[2] \in excluded
        /\ threads[u].pc = "lock"

====
